---- MODULE Spec2Model ----
(***************************************************************************)
(* QRman: a Telegram bot (aiogram + FastAPI) that generates QR codes.      *)
(* Model of src/main.py (module configuration, keyboard builder, handlers, *)
(* dispatcher registration order, webhook endpoint, lifespan, health) and  *)
(* of src/utils/qr_generator.py (QRGenerator).                             *)
(*                                                                         *)
(* Strings are modelled by what the code looks at:                         *)
(*   - an environment value is None or a sequence of tokens;               *)
(*   - a message text is its first character, its command word, its        *)
(*     length in characters (len(text)) and its length in UTF-8 bytes       *)
(*     (what the QR byte mode stores).  Texts are taken without digit or   *)
(*     alphanumeric runs, so the encoder stores them as one byte chunk.    *)
(* An outbound Telegram call either returns (delivered) or raises.         *)
(***************************************************************************)
EXTENDS Integers, Sequences, FiniteSets, TLC

VARIABLES env, BOT_TOKEN, BASE_URL, bot, pc, calls, listening,
          served, req, health, util

vars == <<env, BOT_TOKEN, BASE_URL, bot, pc, calls, listening,
          served, req, health, util>>

(* ---------------------------- bounds ----------------------------------- *)
MaxRequests == 2

(* ---------------------------- values ----------------------------------- *)
None == [none |-> TRUE, s |-> <<>>]
Str(s) == [none |-> FALSE, s |-> s]
\* Python truthiness of an Optional[str]
Truthy(v) == ~v.none /\ Len(v.s) > 0

\* main.py:27
PLACEHOLDER_URL == Str(<< "https://your-app.onrender.com" >>)

StartsWith(u, p) == Len(u) >= Len(p) /\ SubSeq(u, 1, Len(p)) = p

\* qr_generator.py:72
max_length == 154
\* main.py:98 (and the default of QRGenerator.generate_qr_code)
version == 7
\* main.py:100
box_size == 10
\* main.py:101
border == 4

(* ------------------- the wrapped qrcode library ------------------------ *)
\* Data codewords per version at ERROR_CORRECT_L (ISO 18004, table 7);
\* BIT_LIMIT_TABLE[L][v] of the library is 8 times this.
DataCodewordsL ==
  << 19, 34, 55, 80, 108, 136, 156, 194, 232, 274,
     324, 370, 428, 461, 523, 589, 647, 721, 795, 861,
     932, 1006, 1094, 1174, 1276, 1370, 1468, 1531, 1631, 1735,
     1843, 1955, 2071, 2191, 2306, 2434, 2566, 2702, 2812, 2956 >>

MaxVersion == Len(DataCodewordsL)
BitLimit(v) == 8 * DataCodewordsL[v]

\* length-field width of the byte mode (util.mode_sizes_for_version)
ModeSize(v) == IF v < 10 THEN 8 ELSE 16

\* bits of the data list: nothing for an empty payload (add_data yields no
\* chunk), else mode indicator + length field + 8 bits per byte
NeededBits(bytes, v) == IF bytes = 0 THEN 0 ELSE 4 + ModeSize(v) + 8 * bytes

\* bisect_left(BIT_LIMIT_TABLE[L], needed, start): MaxVersion + 1 if none
Bisect(needed, start) ==
  IF \E v \in start..MaxVersion : BitLimit(v) >= needed
  THEN CHOOSE v \in start..MaxVersion :
         /\ BitLimit(v) >= needed
         /\ \A w \in start..(v - 1) : BitLimit(w) < needed
  ELSE MaxVersion + 1

\* QRCode.best_fit(start): 0 stands for DataOverflowError
RECURSIVE best_fit(_, _)
best_fit(bytes, start) ==
  LET v == Bisect(NeededBits(bytes, start), start)
  IN  IF v = MaxVersion + 1 THEN 0
      ELSE IF ModeSize(v) # ModeSize(start) THEN best_fit(bytes, v)
      ELSE v

\* bytes that fit the fixed start version / the largest version
CapacityBytes(v) == (BitLimit(v) - 4 - ModeSize(v)) \div 8

(* ------------------------- QR encoder ---------------------------------- *)
NoImage == [ok |-> FALSE, version |-> 0, format |-> "none", side |-> 0]

\* variant: qr.make(fit=False), the requested version is kept and a payload
\* that does not fit it overflows
make_nofit(bytes, start) ==
  IF NeededBits(bytes, start) <= BitLimit(start) THEN start ELSE 0

\* qr.make(fit=True): the version grows from the requested one
make_fit(bytes, start) == best_fit(bytes, start)

\* main.generate_qr_code(data): QRCode(version=7, L) ; add_data ; make(fit=True)
\* ; make_image ; save PNG.  Raises (ok = FALSE) only on DataOverflowError.
generate_qr_code(data) ==
  LET v == make_fit(data.bytes, version)
  IN  IF v = 0 THEN NoImage
      ELSE [ok |-> TRUE, version |-> v, format |-> "PNG",
            side |-> (4 * v + 17 + 2 * border) * box_size]

\* QRGenerator.generate_qr_code(data, size, version): same, plus the resize
QRGenerator_generate_qr_code(data, size, ver) ==
  LET v == make_fit(data.bytes, ver)
  IN  IF v = 0 THEN NoImage
      ELSE [ok |-> TRUE, version |-> v, format |-> "PNG",
            side |-> IF size # 300 THEN size
                     ELSE (4 * v + 17 + 2 * border) * box_size]

\* QRGenerator.validate_data(data)
validate_data(data) ==
  IF data.chars = 0 THEN FALSE ELSE data.chars <= max_length

(* ------------------------------ texts ---------------------------------- *)
Txt(first, word, chars, bytes) ==
  [first |-> first, word |-> word, chars |-> chars, bytes |-> bytes]

V7Bytes == CapacityBytes(version)
V40Bytes == CapacityBytes(MaxVersion)

Texts ==
  { Txt("", "", 0, 0),
    Txt("/", "start", 6, 6),
    Txt("/", "help", 5, 5),
    Txt("h", "", 1, 1),
    Txt("h", "", max_length, max_length),
    Txt("q", "", max_length, 2 * max_length),
    Txt("h", "", max_length + 1, max_length + 1),
    Txt("h", "", V40Bytes, V40Bytes),
    Txt("h", "", V40Bytes + 1, V40Bytes + 1) }

\* text.startswith('/')
startswith_slash(text) == text.chars > 0 /\ text.first = "/"

(* -------------------------- keyboard ----------------------------------- *)
WebAppButton(label, url) ==
  [text |-> label, kind |-> "web_app", url |-> url, callback_data |-> ""]
CallbackButton(label, data) ==
  [text |-> label, kind |-> "callback", url |-> <<>>, callback_data |-> data]

\* variant: the web-app targets are built from the placeholder host instead
\* of the configured base URL
get_main_keyboard_fixed_url(base) ==
  [buttons |-> << WebAppButton("scan", PLACEHOLDER_URL.s \o <<"/scanner">>),
                  WebAppButton("generate", PLACEHOLDER_URL.s \o <<"/generator">>),
                  CallbackButton("quick", "quick_generate"),
                  CallbackButton("help", "help") >>,
   rows |-> <<2, 2>>]

\* get_main_keyboard(): four buttons, builder.adjust(2, 2); base is the
\* module global BASE_URL and f"{BASE_URL}/scanner" is base followed by the path
get_main_keyboard(base) ==
  [buttons |-> << WebAppButton("scan", base.s \o <<"/scanner">>),
                  WebAppButton("generate", base.s \o <<"/generator">>),
                  CallbackButton("quick", "quick_generate"),
                  CallbackButton("help", "help") >>,
   rows |-> <<2, 2>>]

NoMarkup == [buttons |-> <<>>, rows |-> <<>>]

(* --------------------------- replies ----------------------------------- *)
\* one outbound Telegram call made by a handler and whether it returned
SendMsg(body, markup, ok) ==
  [kind |-> "message", body |-> body, markup |-> markup,
   photo |-> NoImage, ok |-> ok]
SendPhoto(img, ok) ==
  [kind |-> "photo", body |-> "QR_GENERATED", markup |-> NoMarkup,
   photo |-> img, ok |-> ok]
AnswerCallback(ok) ==
  [kind |-> "callback_answer", body |-> "", markup |-> NoMarkup,
   photo |-> NoImage, ok |-> ok]

\* result of running a handler: the calls it made in order, the encoder
\* invocations, and whether an exception left the handler
Result(h, sent, enc, raised) ==
  [handler |-> h, sent |-> sent, enc |-> enc, raised |-> raised]

\* net[k] tells whether the k-th outbound call of the request returns
MaxSends == 3
Nets == [1..MaxSends -> BOOLEAN]

(* --------------------------- handlers ---------------------------------- *)
\* start_command: no try/except
start_command(message, net, base) ==
  Result("start_command",
         << SendMsg("WELCOME_TEXT", get_main_keyboard(base), net[1]) >>,
         <<>>, ~net[1])

\* quick_generate_handler / help_handler: callback.message.answer(...) then
\* callback.answer(); callback.message may be None (AttributeError)
callback_reply(h, body, callback, net) ==
  IF ~callback.has_message THEN Result(h, <<>>, <<>>, TRUE)
  ELSE IF ~net[1] THEN Result(h, << SendMsg(body, NoMarkup, FALSE) >>, <<>>, TRUE)
  ELSE Result(h, << SendMsg(body, NoMarkup, TRUE), AnswerCallback(net[2]) >>,
              <<>>, ~net[2])

quick_generate_handler(callback, net) ==
  callback_reply("quick_generate_handler", "QUICK_TEXT", callback, net)

help_handler(callback, net) ==
  callback_reply("help_handler", "help_text", callback, net)

\* variant: the error reply is itself guarded, nothing leaves the handler
except_branch_swallow(h, sent, enc, net) ==
  LET k == Len(sent) + 1
  IN  Result(h, Append(sent, SendMsg("ERROR_TEXT", NoMarkup, net[k])),
             enc, FALSE)

\* the except branch of a handler: log, then message.answer(ERROR_TEXT),
\* which is itself outside any try
except_branch(h, sent, enc, net) ==
  LET k == Len(sent) + 1
  IN  Result(h, Append(sent, SendMsg("ERROR_TEXT", NoMarkup, net[k])),
             enc, ~net[k])

\* variant: the handler validates the payload first and answers the generic
\* error, without encoding, when validate_data rejects it
generate_qr_from_text_validating(message, net) ==
  LET h == "generate_qr_from_text"
      text == message.text
      img == generate_qr_code(text)
      s1 == << SendMsg("PLACEHOLDER", NoMarkup, net[1]) >>
  IN  IF startswith_slash(text) THEN Result(h, <<>>, <<>>, FALSE)
      ELSE IF ~validate_data(text)
           THEN Result(h, << SendMsg("ERROR_TEXT", NoMarkup, net[1]) >>,
                       <<>>, ~net[1])
      ELSE IF ~net[1] THEN Result(h, Append(s1, SendMsg("ERROR_TEXT", NoMarkup, net[2])), <<>>, ~net[2])
      ELSE IF ~img.ok THEN Result(h, Append(s1, SendMsg("ERROR_TEXT", NoMarkup, net[2])), <<img>>, ~net[2])
      ELSE IF ~net[2]
           THEN Result(h, << s1[1], SendPhoto(img, FALSE),
                             SendMsg("ERROR_TEXT", NoMarkup, net[3]) >>,
                       <<img>>, ~net[3])
      ELSE Result(h, Append(s1, SendPhoto(img, TRUE)), <<img>>, FALSE)

\* variant: the photo is sent straight away, the placeholder after it
generate_qr_from_text_photo_first(message, net) ==
  LET h == "generate_qr_from_text"
      text == message.text
      img == generate_qr_code(text)
  IN  IF startswith_slash(text) THEN Result(h, <<>>, <<>>, FALSE)
      ELSE IF ~img.ok
           THEN Result(h, << SendMsg("ERROR_TEXT", NoMarkup, net[1]) >>,
                       <<img>>, ~net[1])
      ELSE IF ~net[1]
           THEN Result(h, << SendPhoto(img, FALSE),
                             SendMsg("ERROR_TEXT", NoMarkup, net[2]) >>,
                       <<img>>, ~net[2])
      ELSE IF ~net[2]
           THEN Result(h, << SendPhoto(img, TRUE),
                             SendMsg("PLACEHOLDER", NoMarkup, FALSE),
                             SendMsg("ERROR_TEXT", NoMarkup, net[3]) >>,
                       <<img>>, ~net[3])
      ELSE Result(h, << SendPhoto(img, TRUE),
                        SendMsg("PLACEHOLDER", NoMarkup, TRUE) >>,
                  <<img>>, FALSE)

\* generate_qr_from_text
generate_qr_from_text(message, net) ==
  LET h == "generate_qr_from_text"
      text == message.text
      img == generate_qr_code(text)
      s1 == << SendMsg("PLACEHOLDER", NoMarkup, net[1]) >>
  IN  IF startswith_slash(text) THEN Result(h, <<>>, <<>>, FALSE)
      ELSE IF ~net[1] THEN except_branch(h, s1, <<>>, net)
      ELSE IF ~img.ok THEN except_branch(h, s1, <<img>>, net)
      ELSE IF ~net[2]
           THEN except_branch(h, Append(s1, SendPhoto(img, FALSE)), <<img>>, net)
      ELSE Result(h, Append(s1, SendPhoto(img, TRUE)), <<img>>, FALSE)

\* handle_web_app_data
handle_web_app_data(message, net) ==
  LET h == "handle_web_app_data"
      s1 == << SendMsg("SCAN_RESULT", NoMarkup, net[1]) >>
  IN  IF ~net[1] THEN except_branch(h, s1, <<>>, net)
      ELSE Result(h, s1, <<>>, FALSE)

(* -------------------------- dispatcher --------------------------------- *)
\* variant: the F.text handler registered ahead of the /start handler
message_handlers_text_first ==
  << "generate_qr_from_text", "start_command", "handle_web_app_data" >>

\* registration order of the decorators in main.py
message_handlers ==
  << "start_command", "generate_qr_from_text", "handle_web_app_data" >>
callback_handlers == << "quick_generate_handler", "help_handler" >>

\* the filter given to each decorator
Filter(h, ev) ==
  CASE h = "start_command" ->
         /\ ~ev.text.none
         /\ ev.text.s.chars > 0
         /\ ev.text.s.first = "/"
         /\ ev.text.s.word = "start"
    [] h = "generate_qr_from_text" -> ~ev.text.none /\ ev.text.s.chars > 0
    [] h = "handle_web_app_data" -> ev.web_app_data
    [] h = "quick_generate_handler" -> ev.data = "quick_generate"
    [] h = "help_handler" -> ev.data = "help"
    [] OTHER -> FALSE

\* first handler, in registration order, whose filter passes ("" if none)
FirstMatch(hs, ev) ==
  IF \E i \in 1..Len(hs) : Filter(hs[i], ev)
  THEN hs[CHOOSE i \in 1..Len(hs) :
            Filter(hs[i], ev) /\ \A j \in 1..(i - 1) : ~Filter(hs[j], ev)]
  ELSE ""

Unhandled == Result("", <<>>, <<>>, FALSE)

Call(h, ev, net, base) ==
  CASE h = "start_command" -> start_command(ev, net, base)
    [] h = "generate_qr_from_text" ->
         generate_qr_from_text([text |-> ev.text.s], net)
    [] h = "handle_web_app_data" -> handle_web_app_data(ev, net)
    [] h = "quick_generate_handler" -> quick_generate_handler(ev, net)
    [] h = "help_handler" -> help_handler(ev, net)
    [] OTHER -> Unhandled

\* dp.feed_update: one observer per update type, first matching handler
\* only; an exception of the handler propagates to the caller
feed_update(update, net, base) ==
  CASE update.type = "message" ->
         Call(FirstMatch(message_handlers, update.event), update.event, net, base)
    [] update.type = "callback_query" ->
         Call(FirstMatch(callback_handlers, update.event), update.event, net, base)
    [] OTHER -> Unhandled

(* --------------------------- updates ----------------------------------- *)
Message(text, wad) ==
  [type |-> "message",
   event |-> [text |-> text, web_app_data |-> wad,
              data |-> "", has_message |-> TRUE]]
CallbackQuery(data, hasMsg) ==
  [type |-> "callback_query",
   event |-> [text |-> [none |-> TRUE, s |-> Txt("", "", 0, 0)],
              web_app_data |-> FALSE, data |-> data, has_message |-> hasMsg]]
OtherUpdate ==
  [type |-> "edited_message",
   event |-> [text |-> [none |-> TRUE, s |-> Txt("", "", 0, 0)],
              web_app_data |-> FALSE, data |-> "", has_message |-> TRUE]]

NoText == [none |-> TRUE, s |-> Txt("", "", 0, 0)]
SomeText(t) == [none |-> FALSE, s |-> t]

Updates ==
  { Message(SomeText(t), w) : t \in Texts, w \in BOOLEAN }
  \cup { Message(NoText, w) : w \in BOOLEAN }
  \cup { CallbackQuery(d, m) : d \in {"quick_generate", "help", "other"},
                               m \in BOOLEAN }
  \cup { OtherUpdate }

\* a POST body: not JSON, JSON that is not an Update, or an Update
Bodies ==
  { [json |-> FALSE, valid |-> FALSE, update |-> OtherUpdate],
    [json |-> TRUE, valid |-> FALSE, update |-> OtherUpdate] }
  \cup { [json |-> TRUE, valid |-> TRUE, update |-> u] : u \in Updates }

(* ---------------------- module configuration --------------------------- *)
\* variant: the credential check is missing
load_config_no_check(e) ==
  [raised |-> FALSE, BOT_TOKEN |-> e.BOT_TOKEN,
   BASE_URL |-> IF ~Truthy(e.BASE_URL) THEN PLACEHOLDER_URL ELSE e.BASE_URL]

\* variant: the base URL has no fallback
load_config_no_fallback(e) ==
  IF ~Truthy(e.BOT_TOKEN)
  THEN [raised |-> TRUE, BOT_TOKEN |-> e.BOT_TOKEN, BASE_URL |-> e.BASE_URL]
  ELSE [raised |-> FALSE, BOT_TOKEN |-> e.BOT_TOKEN, BASE_URL |-> e.BASE_URL]

\* main.py lines 18-29: read the environment, refuse to start without a
\* credential, fall back to the placeholder base URL
load_config(e) ==
  IF ~Truthy(e.BOT_TOKEN)
  THEN [raised |-> TRUE, BOT_TOKEN |-> e.BOT_TOKEN, BASE_URL |-> e.BASE_URL]
  ELSE [raised |-> FALSE, BOT_TOKEN |-> e.BOT_TOKEN,
        BASE_URL |-> IF ~Truthy(e.BASE_URL) THEN PLACEHOLDER_URL
                     ELSE e.BASE_URL]

\* Bot(token=...) validates the shape "<digits>:<secret>" of the token
validate_token(token) ==
  Len(token.s) = 3 /\ token.s[2] = ":" /\ token.s[1] # "" /\ token.s[3] # ""

EnvTokens ==
  { None, Str(<<>>), Str(<< "not a token" >>), Str(<< "123456", ":", "SECRET" >>) }
EnvUrls ==
  { None, Str(<<>>), Str(<< "https://qr.example.com", "/bot" >>) }

(* ----------------------------- lifespan -------------------------------- *)
ApiCall(op, arg, ok) == [op |-> op, arg |-> arg, ok |-> ok]

\* variant: no try/except around the webhook calls, a failing call aborts
\* the start-up
lifespan_startup_unguarded(token, base, delOk, setOk) ==
  IF Truthy(token) /\ Truthy(base)
  THEN IF ~delOk
       THEN [calls |-> << ApiCall("delete_webhook", <<"drop_pending_updates">>, FALSE) >>,
             branch |-> "register", aborted |-> TRUE]
       ELSE [calls |-> << ApiCall("delete_webhook", <<"drop_pending_updates">>, TRUE),
                          ApiCall("set_webhook", base.s \o <<"/webhook">>, setOk) >>,
             branch |-> "register", aborted |-> ~setOk]
  ELSE [calls |-> <<>>, branch |-> "skip", aborted |-> FALSE]

\* the part of lifespan before the yield: the Telegram calls it makes, in
\* order; delOk / setOk tell whether delete_webhook / set_webhook return
lifespan_startup(token, base, delOk, setOk) ==
  IF Truthy(token) /\ Truthy(base)
  THEN IF ~delOk
       THEN [calls |-> << ApiCall("delete_webhook", <<"drop_pending_updates">>, FALSE) >>,
             branch |-> "register", aborted |-> FALSE]
       ELSE [calls |-> << ApiCall("delete_webhook", <<"drop_pending_updates">>, TRUE),
                          ApiCall("set_webhook", base.s \o <<"/webhook">>, setOk) >>,
             branch |-> "register", aborted |-> FALSE]
  ELSE [calls |-> <<>>, branch |-> "skip", aborted |-> FALSE]

\* health_check()
health_check(token, base) ==
  [status |-> "healthy", service |-> "QR Telegram Bot",
   webhook_set |-> (Truthy(token) /\ Truthy(base))]

\* variant: no try/except, a failure becomes a 500 of the framework
webhook_uncaught(body, net, base) ==
  IF ~body.json \/ ~body.valid
  THEN [http |-> 500, status |-> "", message |-> "", result |-> Unhandled]
  ELSE LET r == feed_update(body.update, net, base)
       IN  IF r.raised
           THEN [http |-> 500, status |-> "", message |-> "", result |-> r]
           ELSE [http |-> 200, status |-> "ok", message |-> "", result |-> r]

\* webhook(request): everything inside try / except Exception
webhook(body, net, base) ==
  IF ~body.json
  THEN [http |-> 200, status |-> "error", message |-> "json",
        result |-> Unhandled]
  ELSE IF ~body.valid
  THEN [http |-> 200, status |-> "error", message |-> "validation",
        result |-> Unhandled]
  ELSE LET r == feed_update(body.update, net, base)
       IN  IF r.raised
           THEN [http |-> 200, status |-> "error", message |-> "handler",
                 result |-> r]
           ELSE [http |-> 200, status |-> "ok", message |-> "", result |-> r]

(* ------------------------------ state ---------------------------------- *)
NoReq == [body |-> [json |-> FALSE, valid |-> FALSE, update |-> OtherUpdate],
          response |-> [http |-> 0, status |-> "", message |-> "",
                        result |-> Unhandled]]
NoHealth == [status |-> "", service |-> "", webhook_set |-> FALSE]
NoUtil == [op |-> "", data |-> Txt("", "", 0, 0), size |-> 300,
           valid |-> FALSE, image |-> NoImage]

Init ==
  /\ env \in [BOT_TOKEN : EnvTokens, BASE_URL : EnvUrls]
  /\ BOT_TOKEN = None
  /\ BASE_URL = None
  /\ bot = FALSE
  /\ pc = "import"
  /\ calls = <<>>
  /\ listening = FALSE
  /\ served = 0
  /\ req = NoReq
  /\ health = NoHealth
  /\ util = NoUtil

\* main.py 18-29
ModuleConfig ==
  /\ pc = "import"
  /\ LET c == load_config(env)
     IN  /\ BOT_TOKEN' = c.BOT_TOKEN
         /\ BASE_URL' = c.BASE_URL
         /\ pc' = IF c.raised THEN "config_error" ELSE "configured"
  /\ UNCHANGED <<env, bot, calls, listening, served, req, health, util>>

\* main.py 31-37 and the rest of the module body: Bot(token=BOT_TOKEN), ...
ModuleSetup ==
  /\ pc = "configured"
  /\ IF validate_token(BOT_TOKEN)
     THEN bot' = TRUE /\ pc' = "loaded"
     ELSE bot' = FALSE /\ pc' = "token_error"
  /\ UNCHANGED <<env, BOT_TOKEN, BASE_URL, calls, listening, served, req,
                 health, util>>

\* main.py 288-290: uvicorn.run(app, ...) enters the lifespan
Main ==
  /\ pc = "loaded"
  /\ pc' = "startup"
  /\ UNCHANGED <<env, BOT_TOKEN, BASE_URL, bot, calls, listening, served,
                 req, health, util>>

\* lifespan up to the yield, then the server listens
Lifespan ==
  /\ pc = "startup"
  /\ \E delOk \in BOOLEAN, setOk \in BOOLEAN :
       LET r == lifespan_startup(BOT_TOKEN, BASE_URL, delOk, setOk)
       IN  /\ calls' = r.calls
           /\ pc' = IF r.aborted THEN "startup_error" ELSE "serving"
           /\ listening' = ~r.aborted
  /\ UNCHANGED <<env, BOT_TOKEN, BASE_URL, bot, served, req, health, util>>

\* POST /webhook
Webhook ==
  /\ pc = "serving"
  /\ served < MaxRequests
  /\ \E body \in Bodies, net \in Nets :
       req' = [body |-> body, response |-> webhook(body, net, BASE_URL)]
  /\ served' = served + 1
  /\ UNCHANGED <<env, BOT_TOKEN, BASE_URL, bot, pc, calls, listening,
                 health, util>>

\* GET /health
Health ==
  /\ pc = "serving"
  /\ health' = health_check(BOT_TOKEN, BASE_URL)
  /\ health' # health
  /\ UNCHANGED <<env, BOT_TOKEN, BASE_URL, bot, pc, calls, listening,
                 served, req, util>>

\* lifespan after the yield: bot.session.close(), errors swallowed
Shutdown ==
  /\ pc = "serving"
  /\ \E closeOk \in BOOLEAN :
       calls' = Append(calls, ApiCall("session_close", <<>>, closeOk))
  /\ pc' = "stopped"
  /\ listening' = FALSE
  /\ UNCHANGED <<env, BOT_TOKEN, BASE_URL, bot, served, req, health, util>>

Next ==
  \/ ModuleConfig
  \/ ModuleSetup
  \/ Main
  \/ Lifespan
  \/ Webhook
  \/ Health
  \/ Shutdown

Spec == Init /\ [][Next]_vars

\* the event loop runs every step of the start-up sequence
FairSpec ==
  Spec /\ WF_vars(ModuleConfig) /\ WF_vars(ModuleSetup) /\ WF_vars(Main)
       /\ WF_vars(Lifespan)

(* ------------- the encoder and the validator as functions -------------- *)
\* payloads around the validator's limit, the capacity of version 7 and the
\* capacity of version 40, in one-byte and two-byte characters
Lengths ==
  { 0, 1, max_length - 1, max_length, max_length + 1,
    V40Bytes \div 2, V40Bytes \div 2 + 1, V40Bytes, V40Bytes + 1 }
UtilData == { Txt("h", "", n, n * b) : n \in Lengths, b \in {1, 2} }
UtilSizes == {300, 200}

UtilInit ==
  /\ env = [BOT_TOKEN |-> None, BASE_URL |-> None]
  /\ BOT_TOKEN = None
  /\ BASE_URL = None
  /\ bot = FALSE
  /\ pc = "import"
  /\ calls = <<>>
  /\ listening = FALSE
  /\ served = 0
  /\ req = NoReq
  /\ health = NoHealth
  /\ \E d \in UtilData, size \in UtilSizes :
       util = [op |-> "", data |-> d, size |-> size, valid |-> FALSE,
               image |-> NoImage]

others == <<env, BOT_TOKEN, BASE_URL, bot, pc, calls, listening, served,
            req, health>>

\* QRGenerator.validate_data(data)
Validate ==
  /\ util' = [util EXCEPT !.op = "validate_data",
                          !.valid = validate_data(util.data),
                          !.image = NoImage]
  /\ util' # util
  /\ UNCHANGED others

\* QRGenerator.generate_qr_code(data, size)
Encode ==
  /\ util' = [util EXCEPT !.op = "QRGenerator.generate_qr_code",
                          !.valid = FALSE,
                          !.image = QRGenerator_generate_qr_code(
                                      util.data, util.size, version)]
  /\ util' # util
  /\ UNCHANGED others

\* main.generate_qr_code(data)
EncodeMain ==
  /\ util' = [util EXCEPT !.op = "generate_qr_code",
                          !.valid = FALSE,
                          !.image = generate_qr_code(util.data)]
  /\ util' # util
  /\ UNCHANGED others

UtilNext ==
  \/ Validate
  \/ Encode
  \/ EncodeMain

UtilSpec == UtilInit /\ [][UtilNext]_vars

(* ======================== properties =================================== *)
Handled == served > 0
Body == req.body
Resp == req.response
Res == req.response.result
Ev == req.body.update.event
IsUpdate == Handled /\ Body.json /\ Body.valid
IsMessage == IsUpdate /\ Body.update.type = "message"
HasText == IsMessage /\ ~Ev.text.none /\ Ev.text.s.chars > 0
Text == Ev.text.s
Last(q) == q[Len(q)]
Delivered(q) == SelectSeq(q, LAMBDA c : c.ok)
Bodies_of(q) == { q[i].body : i \in 1..Len(q) }
\* the free-text handler ran on a text that is not a command
FreeText == HasText /\ Res.handler = "generate_qr_from_text"
            /\ ~startswith_slash(Text)

(* ------------------------------- C1 ------------------------------------ *)
\* C1: every POST /webhook ends in HTTP 200; the body is {status: "error",
\* message} whenever reading the body, building the Update or a handler
\* failed, and {status: "ok"} only when parse and dispatch both completed.
C1_WebhookInBand ==
  Handled =>
    /\ Resp.http = 200
    /\ Resp.status \in {"ok", "error"}
    /\ Resp.status = "error" => Resp.message # ""
    /\ Resp.status = "ok" =>
         /\ Body.json /\ Body.valid
         /\ Res.sent # <<>> => Last(Res.sent).ok
    /\ (~Body.json \/ ~Body.valid) => Resp.status = "error"
    /\ (Res.sent # <<>> /\ ~Last(Res.sent).ok) => Resp.status = "error"

C1_Witness ==
  /\ IsUpdate
  /\ Res.handler = "start_command"
  /\ ~Last(Res.sent).ok
  /\ Resp.http = 200
  /\ Resp.status = "error"

(* ------------------------------- C2 ------------------------------------ *)
\* C2 as stated: for a free text longer than 154 characters validate_data
\* is false and the handler answers the generic error without invoking the
\* encoder.
C2_Original ==
  (FreeText /\ Text.chars > max_length) =>
    /\ ~validate_data(Text)
    /\ Res.enc = <<>>
    /\ "ERROR_TEXT" \in Bodies_of(Res.sent)

\* C2 amended: for a text longer than 154 characters validate_data is
\* false, but the free-text handler never consults it: once the placeholder
\* is sent the encoder is invoked, a text within the capacity of version 40
\* gets its photo, and the generic error is sent only when the placeholder
\* send, the encoder (overflow of version 40) or the photo send failed.
C2_Amended ==
  (FreeText /\ Text.chars > max_length) =>
    /\ ~validate_data(Text)
    /\ Res.sent[1].ok => Len(Res.enc) = 1
    /\ (Res.sent[1].ok /\ Text.bytes <= V40Bytes) =>
         /\ Res.enc[1].ok /\ Res.enc[1].version > version
         /\ Res.sent[2].kind = "photo"
    /\ "ERROR_TEXT" \in Bodies_of(Res.sent) <=>
         \/ ~Res.sent[1].ok
         \/ Text.bytes > V40Bytes
         \/ (Len(Res.sent) >= 2 /\ Res.sent[2].kind = "photo" /\ ~Res.sent[2].ok)

C2_Witness ==
  /\ FreeText
  /\ Text.chars = max_length + 1
  /\ Len(Res.sent) = 2
  /\ Res.sent[2].kind = "photo" /\ Res.sent[2].ok
  /\ Res.enc[1].ok

(* ------------------------------- C3 ------------------------------------ *)
\* C3 as stated: no handler ever lets an exception reach the dispatcher.
C3_Original == IsUpdate => ~Res.raised

Guarded == {"generate_qr_from_text", "handle_web_app_data"}
Unguarded == {"start_command", "quick_generate_handler", "help_handler"}

\* C3 amended: only generate_qr_from_text and handle_web_app_data catch:
\* there, any failure of the placeholder / echo send, of the encoder or of
\* the photo send is replaced by the generic error message, and an
\* exception leaves the handler exactly when sending that error message
\* fails; start_command, quick_generate_handler and help_handler catch
\* nothing, never send the error message, and raise exactly when one of
\* their calls fails (or the callback carries no message).
C3_Amended ==
  IsUpdate =>
    /\ Res.handler \in Guarded =>
         /\ (\E i \in 1..Len(Res.sent) :
               Res.sent[i].body # "ERROR_TEXT" /\ ~Res.sent[i].ok)
              => Last(Res.sent).body = "ERROR_TEXT"
         /\ (\E i \in 1..Len(Res.enc) : ~Res.enc[i].ok)
              => Last(Res.sent).body = "ERROR_TEXT"
         /\ Res.raised <=>
              (Res.sent # <<>> /\ Last(Res.sent).body = "ERROR_TEXT"
               /\ ~Last(Res.sent).ok)
    /\ Res.handler \in Unguarded =>
         /\ "ERROR_TEXT" \notin Bodies_of(Res.sent)
         /\ Res.raised <=> (Res.sent = <<>> \/ ~Last(Res.sent).ok)
    /\ Res.handler = "" => ~Res.raised

C3_Witness ==
  /\ FreeText
  /\ Len(Res.sent) = 3
  /\ ~Res.sent[2].ok
  /\ Res.sent[3].body = "ERROR_TEXT" /\ ~Res.sent[3].ok
  /\ Res.raised

(* ------------------------------- C4 ------------------------------------ *)
WebhookOrder ==
  /\ pc # "startup_error"
  /\ \A i \in 1..Len(calls) :
       calls[i].op = "set_webhook" =>
         /\ i > 1
         /\ calls[i - 1].op = "delete_webhook"
         /\ calls[i - 1].ok
         /\ calls[i - 1].arg = << "drop_pending_updates" >>
         /\ calls[i].arg = BASE_URL.s \o << "/webhook" >>
  /\ (pc = "serving" /\ Truthy(BOT_TOKEN) /\ Truthy(BASE_URL)) =>
       (Len(calls) >= 1 /\ calls[1].op = "delete_webhook")
  /\ pc = "serving" => listening

\* C4: with credential and base URL configured, delete_webhook (dropping
\* pending updates) comes strictly before set_webhook, set_webhook is only
\* attempted after a successful delete, and whatever the two calls do the
\* start-up is not aborted: the application reaches the serving state.
C4_StartupNeverAborts ==
  /\ []WebhookOrder
  /\ (pc = "startup") ~> (pc = "serving" /\ listening)

C4_Witness ==
  /\ pc = "serving"
  /\ listening
  /\ Len(calls) = 1
  /\ calls[1].op = "delete_webhook" /\ ~calls[1].ok

(* ------------------------------- C5 ------------------------------------ *)
Finals == Delivered(Tail(Res.sent))

\* C5 as stated: placeholder first, then exactly one final reply (photo or
\* generic error), never both.
C5_Original ==
  FreeText =>
    /\ Res.sent[1].body = "PLACEHOLDER"
    /\ Len(Finals) = 1
    /\ Finals[1].kind = "photo" \/ Finals[1].body = "ERROR_TEXT"

\* C5 amended: the placeholder is the first call; after it at most one
\* final reply is delivered: the photo with the success caption exactly
\* when placeholder, encoding and photo send all succeed, otherwise the
\* generic error text is sent and is the one final reply exactly when its
\* own send succeeds (when it fails there is no final reply and the
\* exception leaves the handler); a photo is never sent before the
\* placeholder and photo and error text are never both delivered.
C5_Amended ==
  FreeText =>
    /\ Res.sent[1].body = "PLACEHOLDER"
    /\ \A i \in 1..Len(Res.sent) : Res.sent[i].kind = "photo" => i = 2
    /\ Len(Finals) <= 1
    /\ (Len(Finals) = 1 /\ Finals[1].kind = "photo") <=>
         (Res.sent[1].ok /\ generate_qr_code(Text).ok
          /\ Len(Res.sent) >= 2 /\ Res.sent[2].ok)
    /\ (Len(Finals) = 1 /\ Finals[1].kind = "photo") =>
         (Finals[1].body = "QR_GENERATED" /\ Finals[1].photo.format = "PNG"
          /\ Len(Res.sent) = 2)
    /\ Len(Finals) = 0 <=>
         (Last(Res.sent).body = "ERROR_TEXT" /\ ~Last(Res.sent).ok)
    /\ Len(Finals) = 0 => Res.raised
    /\ (Len(Finals) = 1 /\ Finals[1].kind # "photo") =>
         Finals[1].body = "ERROR_TEXT"

C5_Witness ==
  /\ FreeText
  /\ Len(Res.sent) = 3
  /\ Res.sent[1].body = "PLACEHOLDER" /\ Res.sent[1].ok
  /\ Res.sent[2].kind = "photo" /\ ~Res.sent[2].ok
  /\ Res.sent[3].body = "ERROR_TEXT" /\ Res.sent[3].ok

(* ------------------------------- C6 ------------------------------------ *)
MenuShown == IsUpdate /\ Res.handler = "start_command"
Menu == Res.sent[1].markup.buttons
WebAppTargets ==
  { Menu[i].url : i \in { j \in 1..Len(Menu) : Menu[j].kind = "web_app" } }

\* C6 as stated: the menu has 2 or 3 buttons and every web-app target
\* starts with the base URL.
C6_Original ==
  MenuShown =>
    /\ Len(Menu) \in {2, 3}
    /\ \A u \in WebAppTargets : StartsWith(u, BASE_URL.s)

\* C6 amended: the menu always has exactly 4 buttons (scanner and
\* generator web-app buttons, then the "quick_generate" and "help" callback
\* buttons, two per row; "help" is not optional), and every web-app
\* button's target starts with the configured base URL.
C6_Amended ==
  MenuShown =>
    /\ Len(Menu) = 4
    /\ Res.sent[1].markup.rows = <<2, 2>>
    /\ << Menu[1].kind, Menu[2].kind, Menu[3].kind, Menu[4].kind >>
         = << "web_app", "web_app", "callback", "callback" >>
    /\ Menu[3].callback_data = "quick_generate"
    /\ Menu[4].callback_data = "help"
    /\ WebAppTargets = { BASE_URL.s \o << "/scanner" >>,
                         BASE_URL.s \o << "/generator" >> }
    /\ \A u \in WebAppTargets : StartsWith(u, BASE_URL.s)

C6_Witness ==
  /\ MenuShown
  /\ Res.sent[1].ok
  /\ Truthy(env.BASE_URL)
  /\ Len(Menu) = 4

(* ------------------------------- C7 ------------------------------------ *)
Encoded == util.op \in {"generate_qr_code", "QRGenerator.generate_qr_code"}

\* C7 as stated: encode fails when the payload is empty or exceeds the
\* capacity of version 7, and succeeds for 1..154 characters.
C7_Original ==
  Encoded =>
    /\ (util.data.chars = 0 \/ util.data.bytes > V7Bytes) => ~util.image.ok
    /\ (util.data.chars > 0 /\ util.data.chars <= max_length) =>
         (util.image.ok /\ util.image.format = "PNG" /\ util.image.side > 0)

\* C7 amended: encode does not validate and version 7 is only the starting
\* version (fit=True): an empty payload yields a version-7 image, a payload
\* beyond the capacity of version 7 yields an image of the smallest larger
\* version that holds it, and encode fails (DataOverflowError, no image)
\* exactly when the payload exceeds the capacity of version 40 at level L;
\* in particular it yields a non-empty PNG for every string of 1..154
\* characters.
C7_Amended ==
  Encoded =>
    /\ util.image.ok <=> util.data.bytes <= V40Bytes
    /\ ~util.image.ok => util.image = NoImage
    /\ util.image.ok =>
         /\ util.image.format = "PNG" /\ util.image.side > 0
         /\ util.image.version >= version
         /\ util.image.version <= MaxVersion
         /\ util.data.bytes <= CapacityBytes(util.image.version)
         /\ util.image.version > version =>
              util.data.bytes > CapacityBytes(util.image.version - 1)
    /\ util.data.bytes <= V7Bytes => util.image.version = version
    /\ (util.data.chars > 0 /\ util.data.chars <= max_length) =>
         (util.image.ok /\ util.image.format = "PNG" /\ util.image.side > 0)

C7_Witness ==
  /\ Encoded
  /\ util.data.bytes > V7Bytes
  /\ util.data.chars <= max_length
  /\ util.image.ok
  /\ util.image.version > version

(* ------------------------------- C8 ------------------------------------ *)
\* C8: without a (non-empty) BOT_TOKEN the module raises before the bot
\* client exists, before any webhook call and before the server listens; no
\* state has the server listening without a credential.
C8_NoCredentialNoServer ==
  /\ ~Truthy(env.BOT_TOKEN) =>
       /\ pc \in {"import", "config_error"}
       /\ ~bot
       /\ calls = <<>>
       /\ ~listening
       /\ served = 0
  /\ listening => (Truthy(BOT_TOKEN) /\ bot)
  /\ bot => Truthy(BOT_TOKEN)
  /\ calls # <<>> => Truthy(BOT_TOKEN)

C8_Witness ==
  /\ pc = "config_error"
  /\ env.BOT_TOKEN = Str(<<>>)
  /\ ~bot /\ ~listening /\ calls = <<>>

(* ------------------------------- C9 ------------------------------------ *)
IsStart == HasText /\ Text.first = "/" /\ Text.word = "start"
IsOtherCommand == HasText /\ Text.first = "/" /\ Text.word # "start"
\* the web-app data variant: a service message with web_app_data, no text
IsWebAppData == IsMessage /\ Ev.web_app_data /\ ~HasText

C10_WebhookSetAlwaysTrue ==
  pc = "serving" =>
    /\ Truthy(BOT_TOKEN)
    /\ Truthy(BASE_URL)
    /\ ~Truthy(env.BASE_URL) => BASE_URL = PLACEHOLDER_URL
    /\ Len(calls) >= 1 /\ calls[1].op = "delete_webhook"
    /\ health # NoHealth => (health.status = "healthy" /\ health.webhook_set)

C10_Witness ==
  /\ pc = "serving"
  /\ health.status = "healthy"
  /\ health.webhook_set
  /\ ~calls[1].ok
  /\ env.BASE_URL = None

====
